---- MODULE Spec2Model ----
(***************************************************************************)
(* 1bpp2c: conversion of a 1-bit-per-pixel BMP file to a C byte array.     *)
(*                                                                         *)
(* The model follows main() of src/1bpp2c.c statement by statement.  One   *)
(* action is one step of main; pc is the position in main.  What the       *)
(* environment supplies (the arguments, the bytes of the input file, the   *)
(* outcome of fopen and malloc) is drawn from small sets at the statement  *)
(* that reads it; every such value is read by one statement only, so this  *)
(* is the same as fixing it before the run.  The text written to the       *)
(* output file is kept in full, one element per fprintf call; what is      *)
(* printed on the console is not part of the model.                        *)
(***************************************************************************)
EXTENDS Integers, Sequences, FiniteSets, TLC

VARIABLES
    pc,             \* position in main
    exit_code,      \* value returned by main, -1 while running
    argc,           \* number of command-line arguments
    a,              \* index of the flag examined next
    flag_bits,      \* FLAG_FLIP | FLAG_PAL
    f,              \* input handle:  "none", "open", "closed"
    out,            \* output handle: "none", "open", "closed"
    out_text,       \* text written to the output file, one chunk per fprintf
    row,            \* the row buffer: "none", "allocated", "freed"
    row_data,       \* bytes held by the row buffer
    bfType,         \* bf.bfType
    bfOffBits,      \* bf.bfOffBits
    biWidth,        \* bi.biWidth
    biHeight,       \* bi.biHeight
    biBitCount,     \* bi.biBitCount
    biCompression,  \* bi.biCompression
    biClrUsed,      \* bi.biClrUsed
    avail_rows,     \* number of complete pixel rows the input file holds
    row_bytes,      \* padded bytes per row
    abs_width,
    abs_height,
    flip_vertical,
    row_idx,
    y,
    x,
    seeks,          \* the fseek/fread pairs of the pixel loop, in order
    pal             \* RGBQUAD pal[2], <<>> while not read

vars == <<pc, exit_code, argc, a, flag_bits, f, out, out_text, row, row_data,
          bfType, bfOffBits, biWidth, biHeight, biBitCount, biCompression,
          biClrUsed, avail_rows, row_bytes, abs_width, abs_height,
          flip_vertical, row_idx, y, x, seeks, pal>>

(***************************************************************************)
(* Bounds of the model.                                                    *)
(***************************************************************************)
MaxFlags == 2        \* flags after the two file names
MaxWidth == 10       \* |biWidth| of the files of Spec
MaxHeight == 2       \* |biHeight| of the files of Spec
MaxPackWidth == 17   \* widths of the rows of SpecPack
MaxGeomWidth == 48   \* |biWidth| of the headers of SpecGeom

(***************************************************************************)
(* Integer arithmetic of the C types.                                      *)
(***************************************************************************)
\* Every value of the model stays between 0 and INT32_MAX wherever the C code
\* mixes int32_t and uint32_t, so the conversions between the two are exact.
ToU8(v) == v % 256

RECURSIVE BitAnd(_, _)
BitAnd(m, n) ==
    IF m = 0 \/ n = 0 THEN 0
    ELSE (m % 2) * (n % 2) + 2 * BitAnd(m \div 2, n \div 2)

RECURSIVE BitOr(_, _)
BitOr(m, n) ==
    IF m = 0 THEN n
    ELSE IF n = 0 THEN m
    ELSE (IF m % 2 = 1 \/ n % 2 = 1 THEN 1 ELSE 0) + 2 * BitOr(m \div 2, n \div 2)

RECURSIVE Pow2(_)
Pow2(n) == IF n = 0 THEN 1 ELSE 2 * Pow2(n - 1)

Shl(v, n) == v * Pow2(n)
Shr(v, n) == v \div Pow2(n)

FLAG_FLIP == 1
FLAG_PAL == 2

ABS32_U(v) == IF v < 0 THEN -v ELSE v

pack_lsb_noswap2(b) ==
    LET b1 == ToU8(BitOr(Shr(BitAnd(b, 240), 4), Shl(BitAnd(b, 15), 4)))
        b3 == ToU8(BitOr(Shr(BitAnd(b1, 170), 1), Shl(BitAnd(b1, 85), 1)))
    IN  b3

pack_lsb(b) ==
    LET b1 == ToU8(BitOr(Shr(BitAnd(b, 240), 4), Shl(BitAnd(b, 15), 4)))
        b2 == ToU8(BitOr(Shr(BitAnd(b1, 204), 2), Shl(BitAnd(b1, 51), 2)))
        b3 == ToU8(BitOr(Shr(BitAnd(b2, 170), 1), Shl(BitAnd(b2, 85), 1)))
    IN  b3

(***************************************************************************)
(* Command-line flags.  A C string is the sequence of its character codes; *)
(* the character after the last one is the terminating 0.                  *)
(***************************************************************************)
NULL == <<-1>>

CharAt(s, i) == IF i < Len(s) THEN s[i + 1] ELSE 0
Tail_n(s, n) == SubSeq(s, n + 1, Len(s))
tolower(c) == IF c \in 65..90 THEN c + 32 ELSE c

strcmp_eq(s, t) == s = t
stricmp_eq(s, t) ==
    /\ Len(s) = Len(t)
    /\ \A i \in 1..Len(s) : tolower(s[i]) = tolower(t[i])

parse_flag(flag, flag_c, flag_str) ==
    IF flag = NULL \/ CharAt(flag, 0) = 0 THEN 0
    ELSE IF CharAt(flag, 1) = 0 THEN 0
    ELSE IF CharAt(flag, 0) = 45 /\ CharAt(flag, 1) = flag_c /\ CharAt(flag, 2) = 0 THEN 1
    ELSE IF CharAt(flag, 0) = 45 /\ CharAt(flag, 1) = 45 /\ strcmp_eq(Tail_n(flag, 2), flag_str) THEN 2
    ELSE IF /\ CharAt(flag, 0) = 47
            /\ BitOr(CharAt(flag, 1), 32) = BitOr(flag_c, 32)
            /\ CharAt(flag, 2) = 0 THEN 3
    ELSE IF CharAt(flag, 0) = 47 /\ stricmp_eq(Tail_n(flag, 1), flag_str) THEN 4
    ELSE 0

str_help == <<104, 101, 108, 112>>
str_lsb == <<108, 115, 98>>
str_pal == <<112, 97, 108>>
chr_h == 104
chr_l == 108
chr_p == 112

\* the values argv[1] takes: "in.bmp", "-h", "--help", "/H", "/Help", "-l"
FirstArgs ==
    { <<105, 110, 46, 98, 109, 112>>, <<45, 104>>, <<45, 45, 104, 101, 108, 112>>,
      <<47, 72>>, <<47, 72, 101, 108, 112>>, <<45, 108>> }

\* the values argv[3..] take: "-l", "--lsb", "/L", "/LSB", "-p", "--pal", "/p",
\* "/Pal", "-x", "--lsbx", "-", ""
FlagArgs ==
    { <<45, 108>>, <<45, 45, 108, 115, 98>>, <<47, 76>>, <<47, 76, 83, 66>>,
      <<45, 112>>, <<45, 45, 112, 97, 108>>, <<47, 112>>, <<47, 80, 97, 108>>,
      <<45, 120>>, <<45, 45, 108, 115, 98, 120>>, <<45>>, <<>> }

(***************************************************************************)
(* Formatting.                                                             *)
(***************************************************************************)
HexDigitsUpper ==
    <<"0", "1", "2", "3", "4", "5", "6", "7", "8", "9", "A", "B", "C", "D", "E", "F">>

\* printf's %02X of an 8-bit value
Fmt02X(v) == HexDigitsUpper[(v \div 16) + 1] \o HexDigitsUpper[(v % 16) + 1]

\* printf's %d of a 32-bit value
FmtD(v) == ToString(v)

\* one fprintf call: the text it wrote and the values it formatted
Chunk(text, args) == [text |-> text, args |-> args]

BitOrderComment(flags) ==
    IF BitAnd(flags, FLAG_PAL) # 0
    THEN "// Bit order: LSB first.\n"
    ELSE "// Bit order: MSB first.\n"

HeaderText(w, h, flags) ==
    << Chunk("// BMP_WIDTH may not be a multiple of 8; the last byte of each row may contain unused bits.\n", <<>>),
       Chunk("#define BMP_WIDTH  " \o FmtD(w) \o "\n", <<w>>),
       Chunk("#define BMP_HEIGHT " \o FmtD(h) \o "\n", <<h>>),
       Chunk("\n\n", <<>>),
       Chunk(BitOrderComment(flags), <<>>),
       Chunk("unsigned char bmp_data[] = {\n", <<>>) >>

ArrayClose == Chunk("};\n\n", <<>>)

PalLine(e) ==
    Chunk("0x" \o Fmt02X(e.blue) \o ", 0x" \o Fmt02X(e.green) \o ", 0x" \o Fmt02X(e.red) \o ", \n",
          <<e.blue, e.green, e.red>>)

DefaultPalText ==
    << Chunk("// color order: blue, green, red \n", <<>>),
       Chunk("unsigned char default_pal[] = {\n", <<>>),
       Chunk("0x00, 0x00, 0x00, \n", <<>>),
       Chunk("0xff, 0xff, 0xff, \n", <<>>),
       ArrayClose >>

RealPalText(p) ==
    << Chunk("// color order: blue, green, red \n", <<>>),
       Chunk("unsigned char bmp_pal[] = {\n", <<>>),
       PalLine(p[1]),
       PalLine(p[2]),
       ArrayClose >>

(***************************************************************************)
(* Geometry and the bit packer.                                            *)
(***************************************************************************)
BM == 19778

IsBmp(t) == t = BM
DepthRejected(bc) == bc # 1

CompressionRejected_off(c) == FALSE

CompressionRejected(c) == c # 0

RowBytes_unpadded(w) == (ABS32_U(w) + 7) \div 8

RowBytes(w) == ((ABS32_U(w) + 31) \div 32) * 4

\* lines 276-279: byte &= 0xFF << (8 - valid_bits) when x + 8 > abs_width
MaskLastByte_shiftvalid(byte, xx, w) ==
    IF xx + 8 > w
    THEN ToU8(BitAnd(byte, Shl(255, w - xx)))
    ELSE byte

MaskLastByte(byte, xx, w) ==
    IF xx + 8 > w
    THEN LET valid_bits == w - xx
         IN  ToU8(BitAnd(byte, Shl(255, 8 - valid_bits)))
    ELSE byte

\* lines 268-279
PackByte(buf, xx, w, flags) ==
    LET byte0 == buf[Shr(xx, 3) + 1]
        byte1 == IF BitAnd(flags, FLAG_FLIP) # 0 THEN pack_lsb(byte0) ELSE byte0
    IN  MaskLastByte(byte1, xx, w)

\* line 281
PixelChunk(byte, xx, w) ==
    Chunk("0x" \o Fmt02X(byte) \o (IF xx + 8 < w THEN ", " ELSE ",\n"), <<byte>>)

(***************************************************************************)
(* What the environment supplies.                                          *)
(***************************************************************************)
TypeSet == {BM, 0, 19791}
OffBitsSet == {62, 1078}
DepthSet == {1, 8}
CompressionSet == {0, 1}
ClrUsedSet == {0, 2, 16}
WidthSet == (-MaxWidth)..MaxWidth
HeightSet == (-MaxHeight)..MaxHeight

SampleBytes == <<240, 15, 255, 193>>

\* contents a row buffer of n bytes takes in Spec
RowSet(n) ==
    { [k \in 1..n |-> SampleBytes[((k - 1 + s) % Len(SampleBytes)) + 1]] :
        s \in 0..(Len(SampleBytes) - 1) }

RGBQUAD(bl, g, r, rs) == [blue |-> bl, green |-> g, red |-> r, reserved |-> rs]

\* contents of the two palette entries in front of the pixel data
PalSet ==
    { <<RGBQUAD(0, 0, 0, 0), RGBQUAD(255, 255, 255, 0)>>,
      <<RGBQUAD(16, 171, 254, 7), RGBQUAD(9, 128, 63, 255)>> }

(***************************************************************************)
(* main                                                                    *)
(***************************************************************************)
Init ==
    /\ pc = "start"
    /\ exit_code = -1
    /\ argc \in 1..(3 + MaxFlags)
    /\ a = 0
    /\ flag_bits = 0
    /\ f = "none"
    /\ out = "none"
    /\ out_text = <<>>
    /\ row = "none"
    /\ row_data = <<>>
    /\ bfType = 0
    /\ bfOffBits = 0
    /\ biWidth = 0
    /\ biHeight = 0
    /\ biBitCount = 0
    /\ biCompression = 0
    /\ biClrUsed = 0
    /\ avail_rows = 0
    /\ row_bytes = 0
    /\ abs_width = 0
    /\ abs_height = 0
    /\ flip_vertical = FALSE
    /\ row_idx = 0
    /\ y = 0
    /\ x = 0
    /\ seeks = <<>>
    /\ pal = <<>>

Return(code) ==
    /\ exit_code' = code
    /\ pc' = "done"

\* lines 139-163: help screen, usage, start of the flag loop
Start ==
    /\ pc = "start"
    /\ \E arg1 \in (IF argc >= 2 THEN FirstArgs ELSE {NULL}) :
        IF parse_flag(arg1, chr_h, str_help) # 0
        THEN /\ Return(0)
             /\ UNCHANGED <<a, flag_bits>>
        ELSE IF argc < 3
        THEN /\ Return(1)
             /\ UNCHANGED <<a, flag_bits>>
        ELSE /\ flag_bits' = 0
             /\ IF argc > 3
                THEN a' = 3 /\ pc' = "flags"
                ELSE a' = a /\ pc' = "open_in"
             /\ UNCHANGED exit_code
    /\ UNCHANGED <<argc, f, out, out_text, row, row_data, bfType, bfOffBits,
                   biWidth, biHeight, biBitCount, biCompression, biClrUsed,
                   avail_rows, row_bytes, abs_width, abs_height, flip_vertical,
                   row_idx, y, x, seeks, pal>>

\* lines 163-171: one iteration of the flag loop
FlagStep ==
    /\ pc = "flags"
    /\ a < argc
    /\ \E arg \in FlagArgs :
        LET is_l == parse_flag(arg, chr_l, str_lsb) # 0
            is_p == parse_flag(arg, chr_p, str_pal) # 0
        IN  IF ~(is_l \/ is_p)
            THEN /\ Return(1)
                 /\ UNCHANGED <<a, flag_bits>>
            ELSE /\ flag_bits' = BitOr(BitOr(flag_bits, IF is_l THEN FLAG_FLIP ELSE 0),
                                       IF is_p THEN FLAG_PAL ELSE 0)
                 /\ a' = a + 1
                 /\ UNCHANGED <<pc, exit_code>>
    /\ UNCHANGED <<argc, f, out, out_text, row, row_data, bfType, bfOffBits,
                   biWidth, biHeight, biBitCount, biCompression, biClrUsed,
                   avail_rows, row_bytes, abs_width, abs_height, flip_vertical,
                   row_idx, y, x, seeks, pal>>

\* line 163: the flag loop ends
FlagsDone ==
    /\ pc = "flags"
    /\ ~(a < argc)
    /\ pc' = "open_in"
    /\ UNCHANGED <<exit_code, argc, a, flag_bits, f, out, out_text, row, row_data,
                   bfType, bfOffBits, biWidth, biHeight, biBitCount, biCompression,
                   biClrUsed, avail_rows, row_bytes, abs_width, abs_height,
                   flip_vertical, row_idx, y, x, seeks, pal>>

\* lines 175-188: open the input file
OpenIn ==
    /\ pc = "open_in"
    /\ \E ok \in BOOLEAN :
        IF ok
        THEN f' = "open" /\ pc' = "read_bf" /\ UNCHANGED exit_code
        ELSE f' = f /\ Return(1)
    /\ UNCHANGED <<argc, a, flag_bits, out, out_text, row, row_data, bfType,
                   bfOffBits, biWidth, biHeight, biBitCount, biCompression,
                   biClrUsed, avail_rows, row_bytes, abs_width, abs_height,
                   flip_vertical, row_idx, y, x, seeks, pal>>

\* lines 190-195: file header and magic number
ReadFileHeader ==
    /\ pc = "read_bf"
    /\ \E t \in TypeSet, off \in OffBitsSet :
        /\ bfType' = t
        /\ bfOffBits' = off
        /\ IF ~IsBmp(t)
           THEN f' = "closed" /\ Return(1)
           ELSE f' = f /\ pc' = "read_bi" /\ UNCHANGED exit_code
    /\ UNCHANGED <<argc, a, flag_bits, out, out_text, row, row_data, biWidth,
                   biHeight, biBitCount, biCompression, biClrUsed, avail_rows,
                   row_bytes, abs_width, abs_height, flip_vertical, row_idx, y,
                   x, seeks, pal>>

\* lines 197-208: info header, bit depth and compression
ReadInfoHeader ==
    /\ pc = "read_bi"
    /\ \E w \in WidthSet, h \in HeightSet, bc \in DepthSet,
          c \in CompressionSet, cu \in ClrUsedSet, n \in 0..MaxHeight :
        /\ biWidth' = w
        /\ biHeight' = h
        /\ biBitCount' = bc
        /\ biCompression' = c
        /\ biClrUsed' = cu
        /\ avail_rows' = n
        /\ IF DepthRejected(bc)
           THEN f' = "closed" /\ Return(1)
           ELSE IF CompressionRejected(c)
           THEN f' = "closed" /\ Return(1)
           ELSE f' = f /\ pc' = "calc" /\ UNCHANGED exit_code
    /\ UNCHANGED <<argc, a, flag_bits, out, out_text, row, row_data, bfType,
                   bfOffBits, row_bytes, abs_width, abs_height, flip_vertical,
                   row_idx, y, x, seeks, pal>>

\* line 210
CalcRowBytes ==
    /\ pc = "calc"
    /\ row_bytes' = RowBytes(biWidth)
    /\ pc' = "malloc"
    /\ UNCHANGED <<exit_code, argc, a, flag_bits, f, out, out_text, row, row_data,
                   bfType, bfOffBits, biWidth, biHeight, biBitCount, biCompression,
                   biClrUsed, avail_rows, abs_width, abs_height, flip_vertical,
                   row_idx, y, x, seeks, pal>>

\* lines 212-217
Malloc ==
    /\ pc = "malloc"
    /\ \E ok \in BOOLEAN :
        IF ok
        THEN row' = "allocated" /\ f' = f /\ pc' = "open_out" /\ UNCHANGED exit_code
        ELSE row' = row /\ f' = "closed" /\ Return(1)
    /\ UNCHANGED <<argc, a, flag_bits, out, out_text, row_data, bfType, bfOffBits,
                   biWidth, biHeight, biBitCount, biCompression, biClrUsed,
                   avail_rows, row_bytes, abs_width, abs_height, flip_vertical,
                   row_idx, y, x, seeks, pal>>

\* lines 219-230
OpenOut ==
    /\ pc = "open_out"
    /\ \E ok \in BOOLEAN :
        IF ok
        THEN /\ out' = "open"
             /\ pc' = "header"
             /\ UNCHANGED <<row, f, exit_code>>
        ELSE /\ out' = out
             /\ row' = "freed"
             /\ f' = "closed"
             /\ Return(1)
    /\ UNCHANGED <<argc, a, flag_bits, out_text, row_data, bfType, bfOffBits,
                   biWidth, biHeight, biBitCount, biCompression, biClrUsed,
                   avail_rows, row_bytes, abs_width, abs_height, flip_vertical,
                   row_idx, y, x, seeks, pal>>

\* lines 232-258: dimensions, header text, orientation, start of the row loop
WriteHeader ==
    /\ pc = "header"
    /\ abs_height' = ABS32_U(biHeight)
    /\ abs_width' = ABS32_U(biWidth)
    /\ out_text' = out_text \o HeaderText(ABS32_U(biWidth), ABS32_U(biHeight), flag_bits)
    /\ flip_vertical' = (biHeight > 0)
    /\ row_idx' = 0
    /\ pc' = "row_loop"
    /\ UNCHANGED <<exit_code, argc, a, flag_bits, f, out, row, row_data, bfType,
                   bfOffBits, biWidth, biHeight, biBitCount, biCompression,
                   biClrUsed, avail_rows, row_bytes, y, x, seeks, pal>>

\* line 259
FileRow(r) == IF flip_vertical THEN abs_height - 1 - r ELSE r

\* line 262
RowOffset(yy) == bfOffBits + yy * row_bytes

\* lines 258-266: loop test, seek to the row, read it, start of the byte loop
RowEnter ==
    /\ pc = "row_loop"
    /\ row_idx < biHeight
    /\ LET yy == FileRow(row_idx)
           full == (yy >= 0 /\ yy < avail_rows) \/ row_bytes = 0
       IN  /\ y' = yy
           /\ seeks' = Append(seeks, [y |-> yy, off |-> RowOffset(yy), full |-> full])
           \* a full read brings the bytes of the file; after a short read the
           \* buffer holds stale or uninitialised bytes
           /\ row_data' \in RowSet(row_bytes)
    /\ x' = 0
    /\ pc' = "x_loop"
    /\ UNCHANGED <<exit_code, argc, a, flag_bits, f, out, out_text, row, bfType,
                   bfOffBits, biWidth, biHeight, biBitCount, biCompression,
                   biClrUsed, avail_rows, row_bytes, abs_width, abs_height,
                   flip_vertical, row_idx, pal>>

\* lines 258, 284: the row loop ends, the array is closed
RowsDone ==
    /\ pc = "row_loop"
    /\ ~(row_idx < biHeight)
    /\ out_text' = Append(out_text, ArrayClose)
    /\ pc' = "palette"
    /\ UNCHANGED <<exit_code, argc, a, flag_bits, f, out, row, row_data, bfType,
                   bfOffBits, biWidth, biHeight, biBitCount, biCompression,
                   biClrUsed, avail_rows, row_bytes, abs_width, abs_height,
                   flip_vertical, row_idx, y, x, seeks, pal>>

\* lines 266-282: one output byte
XStep ==
    /\ pc = "x_loop"
    /\ x < abs_width
    /\ out_text' = Append(out_text,
                          PixelChunk(PackByte(row_data, x, abs_width, flag_bits), x, abs_width))
    /\ x' = x + 8
    /\ UNCHANGED <<pc, exit_code, argc, a, flag_bits, f, out, row, row_data, bfType,
                   bfOffBits, biWidth, biHeight, biBitCount, biCompression,
                   biClrUsed, avail_rows, row_bytes, abs_width, abs_height,
                   flip_vertical, row_idx, y, seeks, pal>>

\* lines 266, 258: the byte loop ends, next row
XExit ==
    /\ pc = "x_loop"
    /\ ~(x < abs_width)
    /\ row_idx' = row_idx + 1
    /\ pc' = "row_loop"
    /\ UNCHANGED <<exit_code, argc, a, flag_bits, f, out, out_text, row, row_data,
                   bfType, bfOffBits, biWidth, biHeight, biBitCount, biCompression,
                   biClrUsed, avail_rows, row_bytes, abs_width, abs_height,
                   flip_vertical, y, x, seeks, pal>>

\* line 287: no palette requested
PaletteSkip ==
    /\ pc = "palette"
    /\ BitAnd(flag_bits, FLAG_PAL) = 0
    /\ pc' = "cleanup"
    /\ UNCHANGED <<exit_code, argc, a, flag_bits, f, out, out_text, row, row_data,
                   bfType, bfOffBits, biWidth, biHeight, biBitCount, biCompression,
                   biClrUsed, avail_rows, row_bytes, abs_width, abs_height,
                   flip_vertical, row_idx, y, x, seeks, pal>>

\* lines 289-296
PaletteDefault ==
    /\ pc = "palette"
    /\ BitAnd(flag_bits, FLAG_PAL) # 0
    /\ biClrUsed = 0
    /\ out_text' = out_text \o DefaultPalText
    /\ pc' = "cleanup"
    /\ UNCHANGED <<exit_code, argc, a, flag_bits, f, out, row, row_data, bfType,
                   bfOffBits, biWidth, biHeight, biBitCount, biCompression,
                   biClrUsed, avail_rows, row_bytes, abs_width, abs_height,
                   flip_vertical, row_idx, y, x, seeks, pal>>

\* lines 297-306
PaletteReal ==
    /\ pc = "palette"
    /\ BitAnd(flag_bits, FLAG_PAL) # 0
    /\ biClrUsed = 2
    /\ \E p \in PalSet :
        /\ pal' = p
        /\ out_text' = out_text \o RealPalText(p)
    /\ pc' = "cleanup"
    /\ UNCHANGED <<exit_code, argc, a, flag_bits, f, out, row, row_data, bfType,
                   bfOffBits, biWidth, biHeight, biBitCount, biCompression,
                   biClrUsed, avail_rows, row_bytes, abs_width, abs_height,
                   flip_vertical, row_idx, y, x, seeks>>

\* lines 307-310
PaletteUnsupported ==
    /\ pc = "palette"
    /\ BitAnd(flag_bits, FLAG_PAL) # 0
    /\ biClrUsed # 0
    /\ biClrUsed # 2
    /\ Return(1)
    /\ UNCHANGED <<argc, a, flag_bits, f, out, out_text, row, row_data, bfType,
                   bfOffBits, biWidth, biHeight, biBitCount, biCompression,
                   biClrUsed, avail_rows, row_bytes, abs_width, abs_height,
                   flip_vertical, row_idx, y, x, seeks, pal>>

\* lines 313-320
Cleanup ==
    /\ pc = "cleanup"
    /\ row' = "freed"
    /\ f' = "closed"
    /\ out' = "closed"
    /\ Return(0)
    /\ UNCHANGED <<argc, a, flag_bits, out_text, row_data, bfType, bfOffBits,
                   biWidth, biHeight, biBitCount, biCompression, biClrUsed,
                   avail_rows, row_bytes, abs_width, abs_height, flip_vertical,
                   row_idx, y, x, seeks, pal>>

Next ==
    \/ Start
    \/ FlagStep
    \/ FlagsDone
    \/ OpenIn
    \/ ReadFileHeader
    \/ ReadInfoHeader
    \/ CalcRowBytes
    \/ Malloc
    \/ OpenOut
    \/ WriteHeader
    \/ RowEnter
    \/ RowsDone
    \/ XStep
    \/ XExit
    \/ PaletteSkip
    \/ PaletteDefault
    \/ PaletteReal
    \/ PaletteUnsupported
    \/ Cleanup

Spec == Init /\ [][Next]_vars

(***************************************************************************)
(* The bit packer on its own: main at the top of the byte loop (line 266)  *)
(* of the only row of a bottom-up file of height 1, the row buffer filled. *)
(***************************************************************************)
PackBytes == {0, 255, 1, 128, 165, 193}

AtByteLoop(w, flags, data) ==
    /\ pc = "x_loop"
    /\ exit_code = -1
    /\ argc = (IF flags = 0 THEN 3 ELSE IF flags = 3 THEN 5 ELSE 4)
    /\ a = (IF flags = 0 THEN 0 ELSE IF flags = 3 THEN 5 ELSE 4)
    /\ flag_bits = flags
    /\ f = "open"
    /\ out = "open"
    /\ out_text = HeaderText(w, 1, flags)
    /\ row = "allocated"
    /\ row_data = data
    /\ bfType = BM
    /\ bfOffBits = 62
    /\ biWidth = w
    /\ biHeight = 1
    /\ biBitCount = 1
    /\ biCompression = 0
    /\ biClrUsed = 0
    /\ avail_rows = 1
    /\ row_bytes = RowBytes(w)
    /\ abs_width = w
    /\ abs_height = 1
    /\ flip_vertical = TRUE
    /\ row_idx = 0
    /\ y = 0
    /\ x = 0
    /\ seeks = <<[y |-> 0, off |-> 62, full |-> TRUE]>>
    /\ pal = <<>>

InitPack ==
    \E w \in 1..MaxPackWidth, flags \in {0, FLAG_FLIP, FLAG_PAL, FLAG_FLIP + FLAG_PAL} :
        \E data \in [1..RowBytes(w) -> PackBytes] :
            AtByteLoop(w, flags, data)

NextPack ==
    \/ XStep
    \/ XExit

SpecPack == InitPack /\ [][NextPack]_vars

\* the bit reversal on every byte value: a row of width 8 with the reversal flag
InitBits ==
    \E b \in 0..255 : AtByteLoop(8, FLAG_FLIP, [k \in 1..RowBytes(8) |-> b])

SpecBits == InitBits /\ [][NextPack]_vars

(***************************************************************************)
(* The row stride on its own: main at line 210, a valid header read.       *)
(***************************************************************************)
GeomWidths == ((-MaxGeomWidth)..MaxGeomWidth) \cup {-2147483616, 2147483616}

InitGeom ==
    /\ pc = "calc"
    /\ exit_code = -1
    /\ argc = 3
    /\ a = 0
    /\ flag_bits = 0
    /\ f = "open"
    /\ out = "none"
    /\ out_text = <<>>
    /\ row = "none"
    /\ row_data = <<>>
    /\ bfType = BM
    /\ bfOffBits = 62
    /\ biWidth \in GeomWidths
    /\ biHeight = 1
    /\ biBitCount = 1
    /\ biCompression = 0
    /\ biClrUsed = 0
    /\ avail_rows = 1
    /\ row_bytes = 0
    /\ abs_width = 0
    /\ abs_height = 0
    /\ flip_vertical = FALSE
    /\ row_idx = 0
    /\ y = 0
    /\ x = 0
    /\ seeks = <<>>
    /\ pal = <<>>

NextGeom == CalcRowBytes

SpecGeom == InitGeom /\ [][NextGeom]_vars

(***************************************************************************)
(* Properties.                                                             *)
(***************************************************************************)
Bit(v, i) == (v \div Pow2(i)) % 2
Abs(v) == IF v < 0 THEN -v ELSE v
LsbGiven == flag_bits \in {1, 3}
PalGiven == flag_bits \in {2, 3}

\* the pixel loop and the closing of the array are behind
PixelsWritten == out # "none" /\ pc \in {"palette", "cleanup", "done"}

\* C1: once the pixel loop has ended, it has read |biHeight| rows, visual row r
\* from file row |biHeight|-1-r of a bottom-up file and from file row r of a
\* top-down file.
C1_RowsInVisualOrder ==
    PixelsWritten =>
        /\ Len(seeks) = Abs(biHeight)
        /\ \A r \in 0..(Abs(biHeight) - 1) :
            r + 1 <= Len(seeks) =>
                seeks[r + 1].y = (IF biHeight > 0 THEN Abs(biHeight) - 1 - r ELSE r)

\* C2: the bit-order comment of the output says LSB first exactly when the
\* reversal flag was given, whatever the palette flag.
C2_CommentFollowsBitOrder ==
    Len(out_text) >= 5 =>
        out_text[5].text =
            (IF LsbGiven THEN "// Bit order: LSB first.\n" ELSE "// Bit order: MSB first.\n")

\* the byte the packer owes for source byte k (from 0) of a row of width w
Reversed(b) ==
    Bit(b, 7) + 2 * Bit(b, 6) + 4 * Bit(b, 5) + 8 * Bit(b, 4) + 16 * Bit(b, 3)
        + 32 * Bit(b, 2) + 64 * Bit(b, 1) + 128 * Bit(b, 0)
ClearLow(v, n) == (v \div Pow2(n)) * Pow2(n)
OwedByte(k) ==
    LET t == IF LsbGiven THEN Reversed(row_data[k + 1]) ELSE row_data[k + 1]
    IN  IF k * 8 + 8 <= abs_width THEN t ELSE ClearLow(t, 8 - (abs_width - k * 8))

\* the bytes written for the row being packed (SpecPack has one row)
RowGroup == SubSeq(out_text, Len(HeaderText(0, 0, 0)) + 1, Len(out_text))

\* C3: the packer writes ceil(W/8) bytes for a row; a fully covered byte is the
\* source byte, reversed under the reversal flag; the partial last byte is
\* that byte with its low 8-(W-8k) bits cleared after the reversal.
C3_PackedRow ==
    /\ Len(RowGroup) <= (abs_width + 7) \div 8
    /\ \A k \in 0..(Len(RowGroup) - 1) : RowGroup[k + 1].args = <<OwedByte(k)>>
    /\ pc = "row_loop" => Len(RowGroup) = (abs_width + 7) \div 8

C3_Witness ==
    /\ pc = "row_loop"
    /\ abs_width = 10
    /\ ~LsbGiven
    /\ row_data[1] = 255
    /\ row_data[2] = 255
    /\ Len(RowGroup) = 2
    /\ RowGroup[2].args = <<192>>

\* a header that fails validation has been read
BadHeaderRead ==
    /\ f # "none"
    /\ pc # "read_bf"
    /\ \/ bfType # 19778
       \/ pc # "read_bi" /\ (biBitCount # 1 \/ biCompression # 0)

\* C4: a file with a wrong magic number, a depth other than 1 or a nonzero
\* compression field ends the run with a nonzero exit code, and the output
\* file is opened only after the three checks have passed.
C4_NoOutputOnBadHeader ==
    /\ BadHeaderRead => (pc = "done" /\ exit_code # 0 /\ out = "none" /\ out_text = <<>>)
    /\ out # "none" => (bfType = 19778 /\ biBitCount = 1 /\ biCompression = 0)

C4_Witness ==
    /\ pc = "done"
    /\ exit_code = 1
    /\ bfType = 19778
    /\ biBitCount = 1
    /\ biCompression # 0
    /\ out = "none"

\* C5: when main returns, every resource it acquired has been released.
C5_ReleasedOnExit ==
    pc = "done" => (f # "open" /\ out # "open" /\ row # "allocated")

\* C6: a run in which a row of pixels could not be read in full does not end
\* with exit code 0.
C6_ShortReadIsFatal ==
    (pc = "done" /\ abs_width > 0 /\ \E i \in 1..Len(seeks) : ~seeks[i].full)
        => exit_code # 0

\* what follows the pixel array in the output
ArrayCloseAt == CHOOSE i \in 1..Len(out_text) :
    /\ out_text[i] = ArrayClose
    /\ \A j \in 1..(i - 1) : out_text[j] # ArrayClose
PalPart == SubSeq(out_text, ArrayCloseAt + 1, Len(out_text))
PalHandled == out # "none" /\ pc \in {"cleanup", "done"}
OwedPalLine(bl, g, r) ==
    "0x" \o Fmt02X(bl) \o ", 0x" \o Fmt02X(g) \o ", 0x" \o Fmt02X(r) \o ", \n"

\* C7: with the palette flag, color-used 0 writes 0x00,0x00,0x00 then
\* 0xFF,0xFF,0xFF without reading the file, color-used 2 writes the blue,
\* green, red bytes of the two entries read, any other count ends the run with
\* exit code 1 and no palette array; without the flag no palette array is
\* written and the count is no error.
C7_Palette ==
    PalHandled =>
        /\ (PalGiven /\ biClrUsed = 0) =>
            /\ Len(PalPart) = 5
            /\ PalPart[3].text = OwedPalLine(0, 0, 0)
            /\ PalPart[4].text = OwedPalLine(255, 255, 255)
            /\ pal = <<>>
        /\ (PalGiven /\ biClrUsed = 2) =>
            /\ Len(PalPart) = 5
            /\ PalPart[3].text = OwedPalLine(pal[1].blue, pal[1].green, pal[1].red)
            /\ PalPart[4].text = OwedPalLine(pal[2].blue, pal[2].green, pal[2].red)
        /\ (PalGiven /\ biClrUsed \notin {0, 2}) =>
            (pc = "done" /\ exit_code = 1 /\ PalPart = <<>>)
        /\ ~PalGiven => (PalPart = <<>> /\ (pc = "done" => exit_code = 0))

\* C8 as stated: the row stride is a positive multiple of 4 for every width.
C8_StridePositive ==
    pc = "malloc" => (row_bytes > 0 /\ row_bytes % 4 = 0)

\* C8: the row stride is a multiple of 4 for every width, and it is positive
\* exactly when the width field is not 0.
C8_StrideMultipleOf4 ==
    pc = "malloc" => (row_bytes % 4 = 0 /\ (row_bytes > 0 <=> biWidth # 0))

C8_Witness ==
    /\ pc = "malloc"
    /\ biWidth = -33
    /\ row_bytes = 8

\* C9: pack_lsb maps a byte to the byte whose bit i is bit 7-i of it, and
\* applying it twice gives the byte back.
C9_ReversalInvolution ==
    Len(RowGroup) >= 1 =>
        LET b == row_data[1]
            v == RowGroup[1].args[1]
        IN  /\ \A i \in 0..7 : Bit(v, i) = Bit(b, 7 - i)
            /\ pack_lsb(v) = b

C9_Witness ==
    /\ pc = "row_loop"
    /\ row_data[1] = 1
    /\ RowGroup[1].args = <<128>>

\* C10: in the partial last byte of a row, every output bit that stands for a
\* column of the image (bit 7-(c mod 8) MSB first, bit c mod 8 LSB first) is
\* the pixel of that column, and every output bit that stands for a column
\* beyond the width is 0.
C10_MaskRemovesPaddingOnly ==
    (pc = "row_loop" /\ abs_width % 8 # 0) =>
        LET k == abs_width \div 8
            s == row_data[k + 1]
            v == RowGroup[k + 1].args[1]
        IN  \A c \in (k * 8)..(k * 8 + 7) :
                LET pos == IF LsbGiven THEN c % 8 ELSE 7 - (c % 8)
                IN  Bit(v, pos) = (IF c < abs_width THEN Bit(s, 7 - (c % 8)) ELSE 0)

====
